---- MODULE Spec2Model ----
(***************************************************************************)
(* V5.Native byte-column predicate kernel.                                 *)
(*                                                                         *)
(*   Where<cOp, bOp, sign>(set, length, value, matchVector)                *)
(*       src/V5/V5.Native/Operator.h (CompareToVector)                     *)
(*   AndWhereGreaterThanInternal, CountInternal,                           *)
(*   IndexSetN::AndWhereGreaterThan, IndexSetN::Count                      *)
(*       src/V5/V5.Native/IndexSetN.cpp                                    *)
(*                                                                         *)
(* A 64-bit word is the set of its one-bit positions (a subset of 0..63):  *)
(* & is intersection, | is union, ~ is the complement in 0..63, popcount   *)
(* is the cardinality.  Bytes are integers 0..255; the signed reading of a *)
(* lane is ToSigned.  Arrays are functions on 0..Length-1, as in the code. *)
(***************************************************************************)
EXTENDS Integers, FiniteSets, Sequences, TLC

\* ---------------------------------------------------------------- bounds
\* Full 64-row blocks of a column: 0..MaxBlocks.
MaxBlocks == 1

\* ------------------------------------------------------- program constants
\* Rows per bitmap word (i >> 6, i & 63, i += 64).
WordBits == 64
\* Rows per AVX register (set[i], set[i + 32], result << 32).
LaneCount == 32
\* _mm256_set1_epi8(-128): the byte 0x80.
Bias == 128
\* Number of values of an unsigned __int8.
ByteRange == 256

Byte == 0 .. (ByteRange - 1)
AllBits == 0 .. (WordBits - 1)

CompareOperatorN ==
    {"Equals", "NotEquals", "LessThan", "LessThanOrEqual", "GreaterThan", "GreaterThanOrEqual"}
BooleanOperatorN == {"And", "AndNot", "Or"}
SigningN == {"Unsigned", "Signed"}

\* ------------------------------------------------------------ the inputs
\* Tail lengths (length & 63) of the columns tried: none, one row, a full tail.
TailLengths == {0, 1, WordBits - 1}
RowCounts == {b * WordBits + t : b \in 0 .. MaxBlocks, t \in TailLengths}
\* The scalar values tried, and for each the column scanned with it: value,
\* value + 37, value + 74, ... modulo 256, bytes on both sides of value and of
\* 0x80 with, in row 0, a byte equal to value.
ScalarValues == {100, 200}
ColumnByte(value, i) == (value + i * 37) % ByteRange
ColumnOf(value, n) == [i \in 0 .. (n - 1) |-> ColumnByte(value, i)]
\* One block of 64 consecutive byte values starting at base.
LaneBases == {k * LaneCount : k \in 0 .. 7}
LaneColumn(base) == [i \in 0 .. (WordBits - 1) |-> (base + i) % ByteRange]
\* Bitmap fills the caller starts from.
Fills == {"zeros", "ones", "mixed"}
FillWord(f) ==
    CASE f = "zeros" -> {}
      [] f = "ones" -> AllBits
      [] OTHER -> {k \in AllBits : k % 3 = 1}
FillVector(f, n) == [w \in 0 .. (n - 1) |-> FillWord(f)]

\* ------------------------------------------------------------ intrinsics
\* _mm256_sub_epi8, one lane: wrapping byte subtraction.
Sub8(x, y) == (x - y + ByteRange) % ByteRange
\* The two's-complement reading of a byte.
ToSigned(x) == IF x >= Bias THEN x - ByteRange ELSE x
\* _mm256_cmpgt_epi8, one lane: 0xFF if a > b as signed bytes, else 0x00.
CmpGt8(a, b) == IF ToSigned(a) > ToSigned(b) THEN 255 ELSE 0
\* _mm256_cmpeq_epi8, one lane.
CmpEq8(a, b) == IF a = b THEN 255 ELSE 0
\* _mm256_movemask_epi8: bit j is the top bit of lane j.
MoveMask(mask) == {j \in DOMAIN mask : mask[j] >= Bias}
\* _mm256_loadu_si256(&set[i]).
LoadBlock(set, i) == [j \in 0 .. (LaneCount - 1) |-> set[i + j]]
\* ((unsigned __int64)matchBits2) << 32 | matchBits1
Pack64(matchBits1, matchBits2) == matchBits1 \cup {j + LaneCount : j \in matchBits2}
\* ~result
Not64(r) == AllBits \ r

\* ------------------------------------------------ Where (CompareToVector)
\* The scalar comparison of the tail loop: set[i] and value are both
\* unsigned __int8, whatever the sign template argument is.
ScalarCompare(cOp, a, b) ==
    CASE cOp = "GreaterThan" -> a > b
      [] cOp = "GreaterThanOrEqual" -> a >= b
      [] cOp = "LessThan" -> a < b
      [] cOp = "LessThanOrEqual" -> a <= b
      [] cOp = "Equals" -> a = b
      [] cOp = "NotEquals" -> a # b

\* Mutant: the bias is never applied.
ApplyBias_Never(sign, x) == x
\* if (sign == SigningN::Unsigned) x = _mm256_sub_epi8(x, unsignedToSigned)
ApplyBias(sign, x) == IF sign = "Unsigned" THEN Sub8(x, Bias) ELSE x

\* blockOfValue: the biased copy of value, the same in every lane.
BlockOfValue(sign, value) == ApplyBias(sign, value)

\* The switch (cOp) of the block loop, for one register of 32 lanes.
MatchMask(cOp, block, bov) ==
    [j \in DOMAIN block |->
        CASE cOp \in {"GreaterThan", "LessThanOrEqual"} -> CmpGt8(block[j], bov)
          [] cOp \in {"LessThan", "GreaterThanOrEqual"} -> CmpGt8(bov, block[j])
          [] OTHER -> CmpEq8(block[j], bov)]

\* Mutant: the result is never inverted.
PostInvert_Never(cOp, result) == result
\* if (cOp == LessThanOrEqual || GreaterThanOrEqual || NotEquals) result = ~result
PostInvert(cOp, result) ==
    IF cOp \in {"LessThanOrEqual", "GreaterThanOrEqual", "NotEquals"}
    THEN Not64(result)
    ELSE result

\* One iteration of the block loop up to the combine: the 64-bit result of
\* rows i .. i + 63.
BlockResult(cOp, sign, set, i, value) ==
    LET bov == BlockOfValue(sign, value)
        load1 == LoadBlock(set, i)
        load2 == LoadBlock(set, i + LaneCount)
        block1 == [j \in 0 .. (LaneCount - 1) |-> ApplyBias(sign, load1[j])]
        block2 == [j \in 0 .. (LaneCount - 1) |-> ApplyBias(sign, load2[j])]
        matchBits1 == MoveMask(MatchMask(cOp, block1, bov))
        matchBits2 == MoveMask(MatchMask(cOp, block2, bov))
    IN  PostInvert(cOp, Pack64(matchBits1, matchBits2))

\* Mutant: the tail derives <=, >= and != as the block loop does, by
\* inverting the whole word of the opposite comparison.
TailResult_Inverting(cOp, set, blockLength, length, value) ==
    IF cOp \in {"LessThanOrEqual", "GreaterThanOrEqual", "NotEquals"}
    THEN Not64({i % WordBits : i \in {k \in blockLength .. (length - 1) : ~ScalarCompare(cOp, set[k], value)}})
    ELSE {i % WordBits : i \in {k \in blockLength .. (length - 1) : ScalarCompare(cOp, set[k], value)}}
\* The tail loop: result = 0; for (; i < length; ++i) if (set[i] op value)
\* result |= 1 << (i & 63), entered with i = blockLength.
TailResult(cOp, set, blockLength, length, value) ==
    {i % WordBits : i \in {k \in blockLength .. (length - 1) : ScalarCompare(cOp, set[k], value)}}

\* Mutant: AndNot combines with the result itself, not with its complement.
Combine_AndNotUnnegated(bOp, word, result) ==
    CASE bOp = "And" -> word \cap result
      [] bOp = "Or" -> word \cup result
      [] bOp = "AndNot" -> word \cap result
\* Mutant: And toggles the word (^=) where it should mask it (&=).
Combine_AndToggles(bOp, word, result) ==
    CASE bOp = "And" -> (word \ result) \cup (result \ word)
      [] bOp = "Or" -> word \cup result
      [] bOp = "AndNot" -> word \cap Not64(result)
\* switch (bOp): the new value of a bitmap word.
Combine(bOp, word, result) ==
    CASE bOp = "And" -> word \cap result
      [] bOp = "Or" -> word \cup result
      [] bOp = "AndNot" -> word \cap Not64(result)

\* int blockLength = length - (length & 63)
BlockLength(length) == length - (length % WordBits)

\* matchVector[w] op= result.  A scan is followed as the record
\*   mv: the bitmap, touched: the word indexes written,
\*   res: the result computed for each of them.
\* A write past the bitmap's end leaves the modelled words alone and is
\* recorded in touched.
StoreWord(st, bOp, w, result) ==
    [mv |-> IF w \in DOMAIN st.mv
            THEN [st.mv EXCEPT ![w] = Combine(bOp, @, result)]
            ELSE st.mv,
     touched |-> st.touched \cup {w},
     res |-> (w :> result) @@ st.res]

\* for (; i < blockLength; i += 64) { ... matchVector[i >> 6] op= result; }
RECURSIVE WhereBlocks(_, _, _, _, _, _, _, _)
WhereBlocks(cOp, bOp, sign, set, blockLength, value, st, i) ==
    IF i < blockLength
    THEN WhereBlocks(cOp, bOp, sign, set, blockLength, value,
                     StoreWord(st, bOp, i \div WordBits,
                               BlockResult(cOp, sign, set, i, value)),
                     i + WordBits)
    ELSE st

\* Mutant: the tail word is combined even when no row is left over.
WhereTail_Always(cOp, bOp, set, length, value, st) ==
    StoreWord(st, bOp, length \div WordBits,
              TailResult(cOp, set, BlockLength(length), length, value))
\* if ((length & 63) > 0) { ...; matchVector[i >> 6] op= result; }, where the
\* tail loop has left i = length.
WhereTail(cOp, bOp, set, length, value, st) ==
    IF (length % WordBits) > 0
    THEN StoreWord(st, bOp, length \div WordBits,
                   TailResult(cOp, set, BlockLength(length), length, value))
    ELSE st

\* Where<cOp, bOp, sign>(set, length, value, matchVector)
Where(cOp, bOp, sign, set, length, value, mv) ==
    WhereTail(cOp, bOp, set, length, value,
              WhereBlocks(cOp, bOp, sign, set, BlockLength(length), value,
                          [mv |-> mv, touched |-> {}, res |-> << >>], 0))

\* ------------------------------------------------------------- IndexSetN
\* The block loop of AndWhereGreaterThanInternal: biased operands,
\* cmpgt(block, blockOfValue), matchVector[i >> 6] &= result.
RECURSIVE InternalBlocks(_, _, _, _, _)
InternalBlocks(set, blockLength, value, st, i) ==
    IF i < blockLength
    THEN InternalBlocks(set, blockLength, value,
             StoreWord(st, "And", i \div WordBits,
                 LET bov == Sub8(value, Bias)
                     block1 == [j \in 0 .. (LaneCount - 1) |-> Sub8(set[i + j], Bias)]
                     block2 == [j \in 0 .. (LaneCount - 1) |-> Sub8(set[i + LaneCount + j], Bias)]
                 IN  Pack64(MoveMask([j \in 0 .. (LaneCount - 1) |-> CmpGt8(block1[j], bov)]),
                            MoveMask([j \in 0 .. (LaneCount - 1) |-> CmpGt8(block2[j], bov)]))),
             i + WordBits)
    ELSE st

\* AndWhereGreaterThanInternal(set, length, value, matchVector)
AndWhereGreaterThanInternal(set, length, value, mv) ==
    LET st == InternalBlocks(set, BlockLength(length), value,
                             [mv |-> mv, touched |-> {}, res |-> << >>], 0)
    IN  IF (length % WordBits) > 0
        THEN StoreWord(st, "And", length \div WordBits,
                 {i % WordBits : i \in {k \in BlockLength(length) .. (length - 1) : set[k] > value}})
        ELSE st

\* Mutant: the guard compares whole words, rounding the row count down.
CapacityGuard_RoundsDown(vectorLength, setLength) == vectorLength < setLength \div WordBits
\* if (matchVector->Length * 64 < set->Length) return;
CapacityGuard(vectorLength, setLength) == vectorLength * WordBits < setLength

\* CountInternal(matchVector, length): the sum of _mm_popcnt_u64 over the
\* first length words.
RECURSIVE CountLoop(_, _, _, _)
CountLoop(mv, length, i, count) ==
    IF i < length
    THEN CountLoop(mv, length, i + 1, count + Cardinality(mv[i]))
    ELSE count
CountInternal(mv, length) == CountLoop(mv, length, 0, 0)

\* ------------------------------------------------------------- the state
VARIABLES
    set,          \* the column buffer: bytes 0 .. length-1
    length,       \* its row count
    caller,       \* the caller's scalar value, chain combinator and initial fill
    matchVector,  \* the bitmap: word index -> word
    lastCall,     \* the last scan call's arguments, or NoCall
    before,       \* the bitmap as the last scan call found it
    touched,      \* the word indexes the last scan call wrote
    results,      \* the result the last scan call computed for each of them
    ret,          \* how the last scan call ended: "done", "skipped", "threw"
    repeat,       \* whether the last scan call repeated the call before it
    naive,        \* the rows a scalar re-scan of the chain so far finds to match
    count,        \* the last Count's word count and result, or NoCount
    mode,         \* concurrent scans: "shared" or "disjoint" bitmaps
    bufs,         \* concurrent scans: bitmap id -> bitmap
    calls,        \* concurrent scans: thread -> its call's arguments
    thr           \* concurrent scans: thread -> [pc, i, result, tmp]

concVars == <<mode, bufs, calls, thr>>
vars == <<set, length, caller, matchVector, lastCall, before, touched,
          results, ret, repeat, naive, count, mode, bufs, calls, thr>>

NoCall == [api |-> "none"]
NoCount == [words |-> -1, n |-> -1]
VectorLength == Cardinality(DOMAIN matchVector)
\* ceil(n / 64): the words a bitmap of n rows needs.
CeilWords(n) == (n + WordBits - 1) \div WordBits

\* The comparison a scalar re-scan makes: a op b with both bytes read as
\* unsigned 0..255 or as two's-complement -128..127.
NaiveCompare(cOp, sign, a, b) ==
    LET x == IF sign = "Signed" THEN ToSigned(a) ELSE a
        y == IF sign = "Signed" THEN ToSigned(b) ELSE b
    IN  CASE cOp = "GreaterThan" -> x > y
          [] cOp = "GreaterThanOrEqual" -> x >= y
          [] cOp = "LessThan" -> x < y
          [] cOp = "LessThanOrEqual" -> x <= y
          [] cOp = "Equals" -> x = y
          [] cOp = "NotEquals" -> x # y
NaiveRows(cOp, sign, value) ==
    {i \in 0 .. (length - 1) : NaiveCompare(cOp, sign, set[i], value)}
\* Bit (i & 63) of word (i >> 6).
RowBit(mv, i) == (i % WordBits) \in mv[i \div WordBits]

\* The protocol the caller's chain follows: all bits set and then And scans,
\* all bits clear and then Or scans, or neither.
Protocol ==
    CASE caller.fill = "ones" /\ caller.bOp = "And" -> "and"
      [] caller.fill = "zeros" /\ caller.bOp = "Or" -> "or"
      [] OTHER -> "none"
NaiveAfter(rows) ==
    CASE Protocol = "and" -> naive \cap rows
      [] Protocol = "or" -> naive \cup rows
      [] OTHER -> {}

ConcIdle ==
    /\ mode = "none"
    /\ bufs = << >>
    /\ calls = << >>
    /\ thr = << >>

SeqStart ==
    /\ lastCall = NoCall
    /\ before = matchVector
    /\ touched = {}
    /\ results = << >>
    /\ ret = "none"
    /\ repeat = FALSE
    /\ naive = IF Protocol = "and" THEN 0 .. (length - 1) ELSE {}
    /\ count = NoCount

Init ==
    /\ length \in RowCounts
    /\ caller \in [value : ScalarValues, bOp : BooleanOperatorN, fill : Fills]
    /\ set = ColumnOf(caller.value, length)
    \* The bitmap is one word short, exact, or has a spare word.
    /\ \E n \in (CeilWords(length) - 1) .. (CeilWords(length) + 1) :
          /\ n >= 0
          /\ matchVector = FillVector(caller.fill, n)
    /\ SeqStart
    /\ ConcIdle

\* One call Where<cOp, bOp, sign>(set, length, value, matchVector), by a
\* caller that keeps the precondition (the bitmap has a word for every row)
\* and that counts once its chain of scans is over.
ScanCall(cOp, bOp, sign, value) ==
    /\ count = NoCount
    /\ VectorLength >= CeilWords(length)
    /\ \E st \in {Where(cOp, bOp, sign, set, length, value, matchVector)} :
           /\ matchVector' = st.mv
           /\ touched' = st.touched
           /\ results' = st.res
    /\ before' = matchVector
    /\ lastCall' = [api |-> "Where", cOp |-> cOp, bOp |-> bOp,
                    sign |-> sign, value |-> value]
    /\ repeat' = (lastCall' = lastCall)
    /\ ret' = "done"
    /\ naive' = NaiveAfter(NaiveRows(cOp, sign, value))
    /\ UNCHANGED <<set, length, caller, count>>
    /\ UNCHANGED concVars

Scan ==
    \E cOp \in CompareOperatorN, sign \in SigningN :
        ScanCall(cOp, caller.bOp, sign, caller.value)

\* IndexSetN::AndWhereGreaterThan(set, value, matchVector): the capacity
\* guard, the pinning of &set[0] (which throws on an empty array), then the
\* internal scan.
AndWhereGreaterThan ==
    /\ caller.bOp = "And"
    /\ count = NoCount
    /\ LET skip == CapacityGuard(VectorLength, length)
           threw == ~skip /\ length = 0
       IN  \E st \in {IF skip \/ threw
                      THEN [mv |-> matchVector, touched |-> {}, res |-> << >>]
                      ELSE AndWhereGreaterThanInternal(set, length, caller.value, matchVector)} :
           /\ matchVector' = st.mv
           /\ touched' = st.touched
           /\ results' = st.res
           /\ ret' = CASE skip -> "skipped" [] threw -> "threw" [] OTHER -> "done"
           /\ naive' = IF skip \/ threw THEN naive
                       ELSE NaiveAfter(NaiveRows("GreaterThan", "Unsigned", caller.value))
    /\ before' = matchVector
    /\ lastCall' = [api |-> "IndexSetN", cOp |-> "GreaterThan", bOp |-> "And",
                    sign |-> "Unsigned", value |-> caller.value]
    /\ repeat' = (lastCall' = lastCall)
    /\ UNCHANGED <<set, length, caller, count>>
    /\ UNCHANGED concVars

\* CountInternal(matchVector, words): IndexSetN::Count passes the bitmap's
\* length, a caller of the kernel the words its rows need.
Count ==
    \E words \in {VectorLength, CeilWords(length)} :
        /\ count = NoCount
        /\ words <= VectorLength
        /\ count' = [words |-> words, n |-> CountInternal(matchVector, words)]
        /\ UNCHANGED <<set, length, caller, matchVector, lastCall, before,
                       touched, results, ret, repeat, naive>>
        /\ UNCHANGED concVars

Next == Scan \/ AndWhereGreaterThan \/ Count

Spec == Init /\ [][Next]_vars

\* ------------------------------------------------------------ the claims
IsZero(mv) == \A w \in DOMAIN mv : mv[w] = {}
ScanDone == lastCall.api = "Where"
TailRows == length % WordBits
TailWord == length \div WordBits

\* C2: after one Scan with the Or combinator into an all-zero bitmap of
\* ceil(rowCount/64) words, bit (i & 63) of word (i >> 6) is set exactly when
\* i < rowCount and column[i] op value holds under the selected signedness,
\* tail rows included; every bit at an index >= rowCount is clear.
C2_OrScanIsNaive ==
    (ScanDone /\ lastCall.bOp = "Or" /\ IsZero(before) /\ VectorLength = CeilWords(length))
    => \A i \in 0 .. (VectorLength * WordBits - 1) :
          RowBit(matchVector, i)
          <=> (i < length /\ NaiveCompare(lastCall.cOp, lastCall.sign, set[i], lastCall.value))

\* C3: every word a Scan covers, the full words and the tail word, ends as
\* B & R for And, B | R for Or and B & ~R for AndNot, B the word before the call
\* and R the result computed for it; the tail word's R has no bit at or above
\* rowCount & 63.
C3_CombinatorLaws ==
    ScanDone =>
        /\ touched = 0 .. (CeilWords(length) - 1)
        /\ DOMAIN results = touched
        /\ \A w \in touched :
              /\ lastCall.bOp = "And" => matchVector[w] = {k \in AllBits : k \in before[w] /\ k \in results[w]}
              /\ lastCall.bOp = "Or" => matchVector[w] = {k \in AllBits : k \in before[w] \/ k \in results[w]}
              /\ lastCall.bOp = "AndNot" => matchVector[w] = {k \in AllBits : k \in before[w] /\ k \notin results[w]}
        /\ TailRows > 0 => \A k \in results[TailWord] : k < TailRows
C3_Witness ==
    /\ ScanDone
    /\ lastCall.bOp = "AndNot"
    /\ length = WordBits + 1
    /\ results[0] # {} /\ results[0] # AllBits
    /\ results[1] = {0}
    /\ matchVector[0] # before[0]
    /\ matchVector[1] # before[1]

\* C4: IndexSetN::AndWhereGreaterThan returns with every bitmap word as it was
\* when matchVector.Length * 64 < set.Length, and otherwise writes only word
\* indexes below matchVector.Length.
C4_CapacityGuard ==
    lastCall.api = "IndexSetN" =>
        /\ VectorLength * WordBits < length
              => (ret = "skipped" /\ matchVector = before /\ touched = {})
        /\ ret # "skipped" => \A w \in touched : w < VectorLength
C4_Witness ==
    /\ lastCall.api = "IndexSetN"
    /\ ret = "skipped"
    /\ length = WordBits + 1
    /\ VectorLength = 1
    /\ matchVector[0] = AllBits

\* C5: a Scan over N rows leaves the column buffer as it was, writes no bitmap
\* word at an index >= ceil(N/64), and when N is a multiple of 64 does not
\* touch word N/64; every word it did not write keeps its value.
C5_Frame ==
    /\ set = ColumnOf(caller.value, length)
    /\ ScanDone =>
          /\ \A w \in touched : w < CeilWords(length)
          /\ TailRows = 0 => TailWord \notin touched
          /\ \A w \in DOMAIN matchVector : w >= CeilWords(length) => matchVector[w] = before[w]
C5_Witness ==
    /\ ScanDone
    /\ length = WordBits
    /\ VectorLength = 2
    /\ lastCall.bOp = "And"
    /\ matchVector[0] # before[0]
    /\ matchVector[1] = AllBits

\* C6: for a bitmap of ceil(N/64) words that the caller set to all ones before
\* a non-empty chain of And scans, or to all zeros before a chain of Or scans,
\* Count(bitmap, ceil(N/64)) is the number of rows i < N that a scalar re-scan
\* finds to satisfy every predicate of the And chain (some predicate of the Or
\* chain).
C6_CountIsNaive ==
    (/\ count # NoCount
     /\ VectorLength = CeilWords(length)
     /\ count.words = CeilWords(length)
     /\ \/ Protocol = "and" /\ lastCall # NoCall
        \/ Protocol = "or")
    => count.n = Cardinality(naive)

\* C8: an And scan run again with the same arguments leaves every bitmap word
\* as the first run left it.
C8_AndIdempotent ==
    (ScanDone /\ repeat /\ lastCall.bOp = "And") => matchVector = before
C8_Witness ==
    /\ ScanDone
    /\ repeat
    /\ lastCall.bOp = "And"
    /\ length = 2 * WordBits - 1
    /\ matchVector = before
    /\ \A w \in touched : matchVector[w] # FillWord(caller.fill) /\ matchVector[w] # {}

\* C10: after a Scan with rowCount N not a multiple of 64, every bit k >= N & 63
\* of word N >> 6 is 0 when the combinator is And and keeps its value when it
\* is Or or AndNot; no scan call turns a bit at a row index >= N from 0 to 1.
C10_PaddingBits ==
    /\ (ScanDone /\ TailRows > 0) =>
          \A k \in TailRows .. (WordBits - 1) :
              /\ lastCall.bOp = "And" => k \notin matchVector[TailWord]
              /\ lastCall.bOp # "And" => (k \in matchVector[TailWord] <=> k \in before[TailWord])
    /\ \A i \in length .. (VectorLength * WordBits - 1) :
          RowBit(matchVector, i) => RowBit(before, i)
C10_Witness ==
    /\ ScanDone
    /\ lastCall.bOp = "Or"
    /\ caller.fill = "mixed"
    /\ TailRows = 1
    /\ 0 \in matchVector[TailWord]
    /\ 0 \notin before[TailWord]
    /\ 4 \in matchVector[TailWord]
    /\ 3 \notin matchVector[TailWord]

\* ------------------------------------------------- the lanes of a block
\* One block of 64 consecutive byte values scanned against every scalar
\* value: each pair (a, b) of bytes meets in some lane, once in each register.
LaneInit ==
    /\ length = WordBits
    /\ \E base \in LaneBases : set = LaneColumn(base)
    /\ caller \in [value : Byte, bOp : {"Or"}, fill : {"zeros"}]
    /\ matchVector = FillVector("zeros", 1)
    /\ SeqStart
    /\ ConcIdle

LaneScan ==
    /\ lastCall = NoCall
    /\ \E cOp \in CompareOperatorN, sign \in SigningN :
          ScanCall(cOp, caller.bOp, sign, caller.value)

LaneNext == LaneScan

SpecLane == LaneInit /\ [][LaneNext]_vars

\* C1: for every column byte a and scalar b in 0..255, every operator and both
\* signedness modes, the match bit the block loop computes for a row (bias of
\* both operands, signed lane compare, operand swap, post-invert) is a op b
\* with a and b read as unsigned in Unsigned mode and as two's-complement in
\* Signed mode.
C1_BlockLaneIsNaive ==
    ScanDone =>
        \A j \in 0 .. (WordBits - 1) :
            j \in results[0]
            <=> NaiveCompare(lastCall.cOp, lastCall.sign, set[j], lastCall.value)
C1_Witness ==
    /\ ScanDone
    /\ lastCall.sign = "Unsigned"
    /\ lastCall.cOp = "GreaterThanOrEqual"
    /\ lastCall.value = 128
    /\ set[0] = 96
    /\ results[0] = {j \in AllBits : j >= LaneCount}
    /\ matchVector[0] = results[0]

\* ------------------------------------------------------ concurrent scans
\* Two threads each run one Where call over the same column, with the same
\* scalar value and signedness, into one bitmap ("shared") or into a bitmap
\* each ("disjoint").  matchVector[w] op= result is a load of the word and a
\* later store, with no lock between them.
Threads == {1, 2}
\* Mutant: both calls are handed the first bitmap.
Target_Aliased(t) == 1
\* The matchVector argument of thread t's call.
Target(t) == IF mode = "shared" THEN 1 ELSE t
InitialBuffer == FillVector(caller.fill, CeilWords(length))

ConcInit ==
    /\ length \in RowCounts
    /\ caller \in [value : ScalarValues, bOp : {"none"}, fill : {"zeros", "ones"}]
    /\ set = ColumnOf(caller.value, length)
    /\ mode \in {"shared", "disjoint"}
    /\ bufs = [b \in Threads |-> InitialBuffer]
    /\ \E sign \in SigningN : calls \in [Threads -> [cOp : CompareOperatorN, bOp : BooleanOperatorN, sign : {sign}]]
    /\ thr = [t \in Threads |-> [pc |-> "scan", i |-> 0, result |-> {}, tmp |-> {}]]
    /\ matchVector = << >>
    /\ SeqStart

\* The loop conditions: a block is left (i < blockLength), or the tail is
\* ((length & 63) > 0, entered with i = blockLength and left with i = length).
InBlocks(t) == thr[t].i < BlockLength(length)
AtTail(t) == thr[t].i = BlockLength(length) /\ (length % WordBits) > 0

\* The result of the next word is computed and the word loaded:
\* the read half of matchVector[i >> 6] op= result.
ThreadRead(t) ==
    /\ thr[t].pc = "scan"
    /\ InBlocks(t) \/ AtTail(t)
    /\ thr' = [thr EXCEPT ![t] =
          IF InBlocks(t)
          THEN [pc |-> "write", i |-> @.i,
                result |-> BlockResult(calls[t].cOp, calls[t].sign, set, @.i, caller.value),
                tmp |-> bufs[Target(t)][@.i \div WordBits]]
          ELSE [pc |-> "write", i |-> length,
                result |-> TailResult(calls[t].cOp, set, BlockLength(length), length, caller.value),
                tmp |-> bufs[Target(t)][length \div WordBits]]]
    /\ UNCHANGED <<mode, bufs, calls>>
    /\ UNCHANGED <<set, length, caller, matchVector, lastCall, before, touched,
                   results, ret, repeat, naive, count>>

\* The write half: the combined word is stored, and the block loop steps on.
ThreadWrite(t) ==
    /\ thr[t].pc = "write"
    /\ bufs' = [bufs EXCEPT ![Target(t)][thr[t].i \div WordBits] =
                   Combine(calls[t].bOp, thr[t].tmp, thr[t].result)]
    /\ thr' = [thr EXCEPT ![t] =
          [pc |-> "scan", i |-> IF InBlocks(t) THEN @.i + WordBits ELSE @.i,
           result |-> {}, tmp |-> {}]]
    /\ UNCHANGED <<mode, calls>>
    /\ UNCHANGED <<set, length, caller, matchVector, lastCall, before, touched,
                   results, ret, repeat, naive, count>>

\* Neither loop has work left: the call returns.
ThreadReturn(t) ==
    /\ thr[t].pc = "scan"
    /\ ~(InBlocks(t) \/ AtTail(t))
    /\ thr' = [thr EXCEPT ![t].pc = "done"]
    /\ UNCHANGED <<mode, bufs, calls>>
    /\ UNCHANGED <<set, length, caller, matchVector, lastCall, before, touched,
                   results, ret, repeat, naive, count>>

ConcNext == \E t \in Threads : ThreadRead(t) \/ ThreadWrite(t) \/ ThreadReturn(t)

SpecConc == ConcInit /\ [][ConcNext]_vars

AllDone == \A t \in Threads : thr[t].pc = "done"
\* The bitmap call t alone leaves, started from mv.
Alone(t, mv) ==
    Where(calls[t].cOp, calls[t].bOp, calls[t].sign, set, length, caller.value, mv).mv
\* The bitmap the two calls leave when call a returns before call b starts.
Serial(a, b) == Alone(b, Alone(a, InitialBuffer))

Complementary(a, b) ==
    {a, b} \in {{"GreaterThan", "LessThanOrEqual"}, {"LessThan", "GreaterThanOrEqual"},
                {"Equals", "NotEquals"}}
\* Two scans of the same column, rowCount, scalar value and signedness, each
\* Or-combined into its own all-zero bitmap, with complementary operators.
DeMorganPair ==
    /\ AllDone
    /\ mode = "disjoint"
    /\ caller.fill = "zeros"
    /\ \A t \in Threads : calls[t].bOp = "Or"
    /\ Complementary(calls[1].cOp, calls[2].cOp)

\* C7 as stated: the bitmap of Scan(GreaterThan), bitwise inverted, is the
\* bitmap of Scan(LessThanOrEqual); likewise LessThan and GreaterThanOrEqual,
\* Equals and NotEquals.
C7_InvertedWordsEqual ==
    DeMorganPair => \A w \in DOMAIN bufs[1] : Not64(bufs[1][w]) = bufs[2][w]

\* C7 as amended: the two bitmaps are complementary at every row index below
\* rowCount, so the inverted bitmap is the other one when rowCount is a
\* multiple of 64; at the indexes from rowCount up, both are clear.
C7_DeMorganOnRows ==
    DeMorganPair =>
        /\ \A i \in 0 .. (length - 1) : RowBit(bufs[1], i) <=> ~RowBit(bufs[2], i)
        /\ \A i \in length .. (CeilWords(length) * WordBits - 1) :
              ~RowBit(bufs[1], i) /\ ~RowBit(bufs[2], i)
        /\ TailRows = 0 => \A w \in DOMAIN bufs[1] : Not64(bufs[1][w]) = bufs[2][w]
C7_Witness ==
    /\ DeMorganPair
    /\ calls[1].cOp = "GreaterThan"
    /\ calls[2].cOp = "LessThanOrEqual"
    /\ calls[1].sign = "Signed"
    /\ length = WordBits + 1
    /\ bufs[1][0] # {} /\ bufs[2][0] # {}
    /\ bufs[1][1] = {} /\ bufs[2][1] = {0}

\* C9: with the word update split into a load and a store and no lock, two
\* scans into disjoint bitmaps leave, under every interleaving, the bitmaps
\* they leave when run one after the other; into one shared bitmap some
\* interleaving leaves a word that neither serial order leaves (C9_Witness).
C9_DisjointIsSerial ==
    (AllDone /\ mode = "disjoint") =>
        \A t \in Threads : bufs[t] = Alone(t, InitialBuffer)
C9_Witness ==
    /\ AllDone
    /\ mode = "shared"
    /\ length = WordBits + 1
    /\ calls[1].bOp = "And" /\ calls[2].bOp = "Or"
    /\ \A w \in DOMAIN bufs[1] :
          bufs[1][w] # Serial(1, 2)[w] /\ bufs[1][w] # Serial(2, 1)[w]

====
